---- MODULE Spec2Model ----
(***************************************************************************)
(* Model of the conversation orchestration and file-ingestion core of the  *)
(* Quality Assurance Assistant front end:                                  *)
(*   ChatInterface.handleSendMessage   (src/unnamed/part_000)              *)
(*   chatAPI.sendMessage               (src/unnamed/part_003)              *)
(*   ChatInput.handleSubmit            (components/ChatInput.tsx)          *)
(*   FileUpload.onDrop / removeFile    (components/FileUpload.tsx)         *)
(*   App state                         (src/unnamed/part_002)              *)
(*                                                                         *)
(* Strings the code inspects (trim, includes, ===) are sequences of        *)
(* one-character strings.  An optional JavaScript value is the empty set   *)
(* when undefined and a singleton set when defined.                        *)
(*                                                                         *)
(* React re-renders after every state update before the next event is      *)
(* dispatched, so a handler invoked by an event reads the current state    *)
(* through its closure.  A value captured before an await is kept in the   *)
(* record of the pending operation and is what the continuation reads.     *)
(***************************************************************************)
EXTENDS Integers, Sequences, FiniteSets, TLC

VARIABLES
    messages,         \* ChatInterface: useState<ChatMessage[]>([])
    isLoading,        \* ChatInterface: useState(false)
    draft,            \* ChatInput: useState('') (the textarea value)
    exchanges,        \* calls of chatAPI.sendMessage, in order of invocation
    clock,            \* source of new Date()
    lastCall,         \* the handler invocation that produced this state, if any
    selectedPersona,  \* App: useState('Novice Guide')
    uploadedFiles,    \* App: useState<any[]>([])
    batches,          \* invocations of FileUpload.onDrop awaiting Promise.all
    lastBatch,        \* the invocation of onDrop the last step completed, if any
    dropped,          \* how many batches and files were dropped so far
    downloads         \* clicks of Download Chart and what saveAs was given

vars == <<messages, isLoading, draft, exchanges, clock, lastCall,
          selectedPersona, uploadedFiles, batches, lastBatch, dropped, downloads>>

chatVars == <<messages, isLoading, draft, exchanges, clock, lastCall, downloads>>

uploadVars == <<uploadedFiles, batches, lastBatch, dropped>>

(***************************************************************************)
(* Bounds of the model.                                                    *)
(***************************************************************************)
MaxSends == 2
MaxBatches == 2
MaxDropped == 3
\* the same for the runs that follow uploads by sends
MaxContextBatches == 1
MaxContextDropped == 2
MaxContextSends == 1
\* sends and clicks of Download Chart in the runs about the export
MaxExportSends == 2
MaxExports == 2
\* batches, files and sends in the runs about the request of a send
MaxRequestBatches == 1
MaxRequestDropped == 2
MaxRequestSends == 1
\* batches and files in the runs about removals and completion
MaxRemovalBatches == 2
MaxRemovalDropped == 2
\* sends in the runs about the settling of every exchange
MaxLiveSends == 2

(***************************************************************************)
(* JavaScript values.                                                      *)
(***************************************************************************)
None == {}

Some(v) == {v}

TheValue(opt) == CHOOSE v \in opt : TRUE

\* opt?.field
OptField(opt, field) == IF opt = None THEN None ELSE TheValue(opt)[field]

Whitespace == {" ", "\t", "\n"}

RECURSIVE TrimStart(_)
TrimStart(s) ==
    IF s = <<>> THEN s
    ELSE IF Head(s) \in Whitespace THEN TrimStart(Tail(s)) ELSE s

RECURSIVE TrimEnd(_)
TrimEnd(s) ==
    IF s = <<>> THEN s
    ELSE IF s[Len(s)] \in Whitespace THEN TrimEnd(SubSeq(s, 1, Len(s) - 1)) ELSE s

TrimIdentity(s) == s

\* String.prototype.trim
Trim(s) == TrimEnd(TrimStart(s))

\* String.prototype.includes
Includes(s, sub) ==
    \E i \in 1..(Len(s) + 1) :
        /\ i + Len(sub) - 1 <= Len(s)
        /\ SubSeq(s, i, i + Len(sub) - 1) = sub

\* the truth value of a string in a condition
Truthy(s) == s # <<>>

(***************************************************************************)
(* Texts.                                                                  *)
(***************************************************************************)
Suggestions ==
    { <<"G", "e", "n", "e", "r", "a", "t", "e", " ", "a", " ", "h", "i", "s", "t", "o", "g", "r", "a", "m">>,
      <<"C", "r", "e", "a", "t", "e", " ", "a", " ", "P", "a", "r", "e", "t", "o", " ", "c", "h", "a", "r", "t">>,
      <<"S", "h", "o", "w", " ", "m", "e", " ", "c", "o", "n", "t", "r", "o", "l", " ", "c", "h", "a", "r", "t", "s">>,
      <<"H", "e", "l", "p", " ", "w", "i", "t", "h", " ", "r", "o", "o", "t", " ", "c", "a", "u", "s", "e", " ", "a", "n", "a", "l", "y", "s", "i", "s">> }

ApologyText ==
    <<"S", "o", "r", "r", "y", ",", " ", "I", " ", "e", "n", "c", "o", "u", "n", "t", "e", "r", "e", "d", " ", "a", "n", " ", "e", "r", "r", "o", "r", ".", " ", "P", "l", "e", "a", "s", "e", " ", "t", "r", "y", " ", "a", "g", "a", "i", "n", ".">>

\* what the user can type into the textarea or pass to the handler
TypedTexts == { <<>>, <<" ", "\t">>, <<" ", "h", "i", "\n">> }

DefaultPersona == "Novice Guide"

TypePdf == <<"a", "p", "p", "l", "i", "c", "a", "t", "i", "o", "n", "/", "p", "d", "f">>

TypeCsv == <<"t", "e", "x", "t", "/", "c", "s", "v">>

TypeXls == <<"a", "p", "p", "l", "i", "c", "a", "t", "i", "o", "n", "/", "v", "n", "d", ".", "m", "s", "-", "e", "x", "c", "e", "l">>

TypeXlsx == <<"a", "p", "p", "l", "i", "c", "a", "t", "i", "o", "n", "/", "v", "n", "d", ".", "o", "p", "e", "n", "x", "m", "l", "f", "o", "r", "m", "a", "t", "s", "-", "o", "f", "f", "i", "c", "e", "d", "o", "c", "u", "m", "e", "n", "t", ".", "s", "p", "r", "e", "a", "d", "s", "h", "e", "e", "t", "m", "l", ".", "s", "h", "e", "e", "t">>

TypePng == <<"i", "m", "a", "g", "e", "/", "p", "n", "g">>

ExcelWord == <<"e", "x", "c", "e", "l">>

ParetoChart == <<"p", "a", "r", "e", "t", "o", "_", "c", "h", "a", "r", "t">>

ResponseText == <<"o", "k">>

\* chart_data of a tool result: base64 text, bare or as a data URL
ChartBase64 == <<"i", "V", "B", "O">>

ChartDataUrl ==
    <<"d", "a", "t", "a", ":", "i", "m", "a", "g", "e", "/", "p", "n", "g", ";", "b", "a", "s", "e", "6", "4", ",", "Q", "k", "0", "=">>

DoubleUnderscore == <<"a", "_", "_", "b">>

WithSpace == <<"a", " ", "b">>

PdfText == <<"Q", "A", " ", "S", "O", "P">>

(***************************************************************************)
(* JSON.stringify of the rows a tabular upload returned.  A row is a       *)
(* sequence of [k, v] pairs: k a one-character column name, v a digit.     *)
(***************************************************************************)
Digits == <<"0", "1", "2", "3", "4", "5", "6", "7", "8", "9">>

JSONPair(p) == <<"\"", p.k, "\"", ":", Digits[p.v + 1]>>

RECURSIVE JSONJoin(_)
JSONJoin(parts) ==
    IF parts = <<>> THEN <<>>
    ELSE IF Len(parts) = 1 THEN parts[1]
    ELSE parts[1] \o <<",">> \o JSONJoin(Tail(parts))

JSONObject(row) == <<"{">> \o JSONJoin([i \in 1..Len(row) |-> JSONPair(row[i])]) \o <<"}">>

JSONStringifyRows(data) ==
    <<"[">> \o JSONJoin([i \in 1..Len(data) |-> JSONObject(data[i])]) \o <<"]">>

\* JSON.stringify of a ChatMessage: the Date becomes its ISO string, an
\* undefined property is left out
JSONMessage(m) ==
    [role |-> m.role, content |-> m.content, timestamp |-> [iso |-> m.timestamp],
     chartData |-> m.chartData, toolType |-> m.toolType,
     statistics |-> m.statistics, chartMetadata |-> m.chartMetadata]

JSONStringifyHistory(chatHistory) ==
    [i \in 1..Len(chatHistory) |-> JSONMessage(chatHistory[i])]

\* JSON.stringify of the file context: an array text, "[" records "]"
JSONStringifyContext(fileContext) ==
    [open |-> "[", records |-> fileContext, close |-> "]"]

\* the length of an array text is at least that of "[]"
JSONLength(text) == Len(<<text.open>>) + Len(text.records) + Len(<<text.close>>)

(***************************************************************************)
(* ChatInterface.handleSendMessage: the file context (lines 47-62).        *)
(***************************************************************************)
IsCSVExact(file) == file.type = TypeCsv

IsCSV(file) == file.type = TypeCsv \/ Includes(file.type, ExcelWord)

FileContextRecordTextOnly(file) ==
    [name |-> file.name,
     type |-> file.type,
     content |-> IF file.uploadResponse.text = None THEN <<>>
                 ELSE TheValue(file.uploadResponse.text),
     metadata |-> [columns |-> IF file.uploadResponse.columns = None THEN <<>>
                               ELSE TheValue(file.uploadResponse.columns),
                   type |-> file.uploadResponse.metadata.type]]

FileContextRecord(file) ==
    [name |-> file.name,
     type |-> file.type,
     content |-> IF IsCSV(file)
                 THEN JSONStringifyRows(IF file.uploadResponse.data = None THEN <<>>
                                        ELSE TheValue(file.uploadResponse.data))
                 ELSE IF file.uploadResponse.text = None THEN <<>>
                      ELSE TheValue(file.uploadResponse.text),
     metadata |-> [columns |-> IF file.uploadResponse.columns = None THEN <<>>
                               ELSE TheValue(file.uploadResponse.columns),
                   type |-> file.uploadResponse.metadata.type]]

FileContext(files) ==
    IF Len(files) > 0 THEN [i \in 1..Len(files) |-> FileContextRecord(files[i])]
    ELSE <<>>

(***************************************************************************)
(* chatAPI.sendMessage: the form posted to /api/chat (lines 170-175).      *)
(***************************************************************************)
SendMessageFormTrailing(message, chatHistory, persona, recipientEmail, csvContext) ==
    [message |-> message,
     chat_history |-> JSONStringifyHistory(
                         IF chatHistory = <<>> THEN <<>>
                         ELSE <<chatHistory[Len(chatHistory)]>>),
     persona |-> persona,
     recipient_email |-> recipientEmail,
     csv_context |-> IF JSONLength(csvContext) > 0 THEN Some(csvContext) ELSE None]

SendMessageFormOmitEmpty(message, chatHistory, persona, recipientEmail, csvContext) ==
    [message |-> message,
     chat_history |-> JSONStringifyHistory(chatHistory),
     persona |-> persona,
     recipient_email |-> IF recipientEmail # None /\ Truthy(TheValue(recipientEmail))
                         THEN recipientEmail ELSE None,
     csv_context |-> IF Len(csvContext.records) > 0 THEN Some(csvContext) ELSE None]

SendMessageFormDefaultPersona(message, chatHistory, persona, recipientEmail, csvContext) ==
    [message |-> message,
     chat_history |-> JSONStringifyHistory(chatHistory),
     persona |-> DefaultPersona,
     recipient_email |-> IF recipientEmail # None /\ Truthy(TheValue(recipientEmail))
                         THEN recipientEmail ELSE None,
     csv_context |-> IF JSONLength(csvContext) > 0 THEN Some(csvContext) ELSE None]

SendMessageForm(message, chatHistory, persona, recipientEmail, csvContext) ==
    [message |-> message,
     chat_history |-> JSONStringifyHistory(chatHistory),
     persona |-> persona,
     recipient_email |-> IF recipientEmail # None /\ Truthy(TheValue(recipientEmail))
                         THEN recipientEmail ELSE None,
     csv_context |-> IF JSONLength(csvContext) > 0 THEN Some(csvContext) ELSE None]

(***************************************************************************)
(* What the call of /api/chat can settle with.  axios rejects on a         *)
(* transport error and on a status outside 2xx; response.data is the       *)
(* parsed body: an object, a string (an empty or unparseable body) or      *)
(* null.                                                                   *)
(***************************************************************************)
\* a tool result with the given chart image
ToolResultWith(chartData) ==
    [chart_data |-> Some(chartData), data_summary |-> Some("mean=2"),
     chart_metadata |-> Some("bins=5")]

ToolResult ==
    [chart_data |-> Some(ChartBase64), data_summary |-> Some("mean=2"),
     chart_metadata |-> Some("bins=5")]

NullBody == [kind |-> "null", message |-> None, tool_result |-> None, tool_type |-> None]

ResponseBodies ==
    { [kind |-> "object", message |-> Some(ResponseText), tool_result |-> None, tool_type |-> None],
      [kind |-> "object", message |-> Some(ResponseText), tool_result |-> Some(ToolResult),
       tool_type |-> Some(ParetoChart)],
      [kind |-> "object", message |-> Some(ResponseText), tool_result |-> None,
       tool_type |-> Some(ParetoChart)],
      [kind |-> "object", message |-> None, tool_result |-> None, tool_type |-> None],
      [kind |-> "string", message |-> None, tool_result |-> None, tool_type |-> None],
      NullBody }

ErrorKinds == {"Network Error", "Request failed with status code 500"}

Pending == [settled |-> "pending", data |-> NullBody, error |-> ""]

Outcomes ==
    { [settled |-> "fulfilled", data |-> d, error |-> ""] : d \in ResponseBodies }
    \cup { [settled |-> "rejected", data |-> NullBody, error |-> e] : e \in ErrorKinds }

\* response.<name>: undefined on a string, a TypeError on null
Property(response, name) == IF response.kind = "object" THEN response[name] ELSE None

\* the try block throws: the await rejected, or response.message read null
Throws(outcome) == outcome.settled = "rejected" \/ outcome.data.kind = "null"

(***************************************************************************)
(* ChatInterface.handleSendMessage: the messages it builds.                *)
(***************************************************************************)
UserMessageAsAssistant(message, now) ==
    [role |-> "assistant", content |-> Some(message), timestamp |-> now,
     chartData |-> None, toolType |-> None, statistics |-> None, chartMetadata |-> None]

UserMessageTrimmed(message, now) ==
    [role |-> "user", content |-> Some(Trim(message)), timestamp |-> now,
     chartData |-> None, toolType |-> None, statistics |-> None, chartMetadata |-> None]

UserMessage(message, now) ==
    [role |-> "user", content |-> Some(message), timestamp |-> now,
     chartData |-> None, toolType |-> None, statistics |-> None, chartMetadata |-> None]

AssistantMessageSwapped(response, now) ==
    [role |-> "assistant",
     content |-> Property(response, "message"),
     timestamp |-> now,
     chartData |-> OptField(Property(response, "tool_result"), "chart_data"),
     toolType |-> Property(response, "tool_type"),
     statistics |-> OptField(Property(response, "tool_result"), "chart_metadata"),
     chartMetadata |-> OptField(Property(response, "tool_result"), "data_summary")]

AssistantMessage(response, now) ==
    [role |-> "assistant",
     content |-> Property(response, "message"),
     timestamp |-> now,
     chartData |-> OptField(Property(response, "tool_result"), "chart_data"),
     toolType |-> Property(response, "tool_type"),
     statistics |-> OptField(Property(response, "tool_result"), "data_summary"),
     chartMetadata |-> OptField(Property(response, "tool_result"), "chart_metadata")]

ErrorMessageWithDetail(error, now) ==
    [role |-> "assistant",
     content |-> Some(IF error = "Network Error" THEN <<"N", "e", "t", "w", "o", "r", "k">>
                      ELSE <<"5", "0", "0">>),
     timestamp |-> now,
     chartData |-> None, toolType |-> None, statistics |-> None, chartMetadata |-> None]

ErrorMessage(error, now) ==
    [role |-> "assistant", content |-> Some(ApologyText), timestamp |-> now,
     chartData |-> None, toolType |-> None, statistics |-> None, chartMetadata |-> None]

AppendUserFirst(prev, userMessage) == <<userMessage>> \o prev

\* setMessages(prev => [...prev, userMessage])
AppendUser(prev, userMessage) == Append(prev, userMessage)

AppendAssistantOverLast(prev, assistantMessage) ==
    IF prev = <<>> THEN <<assistantMessage>>
    ELSE [prev EXCEPT ![Len(prev)] = assistantMessage]

\* setMessages(prev => [...prev, assistantMessage])
AppendAssistant(prev, assistantMessage) == Append(prev, assistantMessage)

AppendErrorDropped(prev, errorMessage) == prev

\* setMessages(prev => [...prev, errorMessage])
AppendError(prev, errorMessage) == Append(prev, errorMessage)

(***************************************************************************)
(* ChatInterface.handleSendMessage, up to its await (lines 33-70): the     *)
(* blank check, the user message, the loading flag and the request, which  *)
(* is built from the messages, files and persona of the current render.    *)
(***************************************************************************)
NoCall == [op |-> "none", message |-> <<>>]

RejectsWhileLoading(message) == ~Truthy(Trim(message)) \/ isLoading

\* if (!message.trim()) return;  -- the only early return of the handler
Rejects(message) == ~Truthy(Trim(message))

HandleSendMessage(message) ==
    IF Rejects(message)
    THEN UNCHANGED <<messages, isLoading, exchanges, clock>>
    ELSE LET userMessage == UserMessage(message, clock)
             fileContext == FileContext(uploadedFiles)
             request == SendMessageForm(message, messages, selectedPersona, None,
                                        JSONStringifyContext(fileContext))
         IN /\ messages' = AppendUser(messages, userMessage)
            /\ isLoading' = TRUE
            /\ exchanges' = Append(exchanges,
                                   [request |-> request, files |-> uploadedFiles,
                                    outcome |-> Pending,
                                    userPos |-> Len(messages) + 1, replyPos |-> 0])
            /\ clock' = clock + 1

\* the number of sends is bounded; a blank send is always possible
WithinBound(message) == Truthy(Trim(message)) => Len(exchanges) < MaxSends

\* handleSendMessage called by any holder of the handler
CallHandleSendMessage ==
    \E message \in TypedTexts :
        /\ WithinBound(message)
        /\ HandleSendMessage(message)
        /\ lastCall' = [op |-> "handleSendMessage", message |-> message]
        /\ UNCHANGED <<draft, selectedPersona, uploadVars, downloads>>

\* a welcome suggestion button, rendered while messages.length === 0
ClickSuggestion ==
    \E suggestion \in Suggestions :
        /\ Len(messages) = 0
        /\ WithinBound(suggestion)
        /\ HandleSendMessage(suggestion)
        /\ lastCall' = [op |-> "suggestion", message |-> suggestion]
        /\ UNCHANGED <<draft, selectedPersona, uploadVars, downloads>>

\* ChatInput: onChange of the textarea
TypeDraft ==
    \E text \in TypedTexts :
        /\ draft' = text
        /\ lastCall' = NoCall
        /\ UNCHANGED <<messages, isLoading, exchanges, clock,
                       selectedPersona, uploadVars, downloads>>

DisabledNever == FALSE

\* <ChatInput onSendMessage={handleSendMessage} disabled={isLoading} />
Disabled == isLoading

\* ChatInput.handleSubmit
HandleSubmit ==
    /\ lastCall' = [op |-> "handleSubmit", message |-> draft]
    /\ IF Truthy(Trim(draft)) /\ ~Disabled
       THEN /\ WithinBound(draft)
            /\ HandleSendMessage(draft)
            /\ draft' = <<>>
       ELSE UNCHANGED <<messages, isLoading, exchanges, clock, draft>>
    /\ UNCHANGED <<selectedPersona, uploadVars, downloads>>

(***************************************************************************)
(* ChatInterface.handleSendMessage, after its await (lines 72-93).         *)
(***************************************************************************)
LoadingUnlessThrown(outcome) == Throws(outcome)

\* finally { setIsLoading(false) }
LoadingAfterSettle(outcome) == FALSE

\* the call of exchange i settles with one of the outcomes
SettleExchangeAt(i, outcomes) ==
    \E outcome \in outcomes :
        /\ exchanges[i].outcome.settled = "pending"
        /\ messages' = IF Throws(outcome)
                       THEN AppendError(messages, ErrorMessage(outcome.error, clock))
                       ELSE AppendAssistant(messages, AssistantMessage(outcome.data, clock))
        /\ isLoading' = LoadingAfterSettle(outcome)
        /\ exchanges' = [exchanges EXCEPT ![i].outcome = outcome,
                                          ![i].replyPos = Len(messages) + 1]
        /\ clock' = clock + 1
        /\ lastCall' = NoCall
        /\ UNCHANGED <<draft, selectedPersona, uploadVars, downloads>>

SettleExchangeWith(outcomes) ==
    \E i \in 1..Len(exchanges) : SettleExchangeAt(i, outcomes)

SettleExchange == SettleExchangeWith(Outcomes)

(***************************************************************************)
(* FileUpload: the files a user can drop and what the upload calls return. *)
(***************************************************************************)
FilePool ==
    { [name |-> "sop.pdf", size |-> 10, type |-> TypePdf],
      [name |-> "defects.csv", size |-> 20, type |-> TypeCsv],
      [name |-> "photo.png", size |-> 30, type |-> TypePng],
      [name |-> "runs.xls", size |-> 40, type |-> TypeXls],
      [name |-> "book.xlsx", size |-> 50, type |-> TypeXlsx] }

\* Math.random().toString(36).substr(2, 9)
Ids == {"k3j9x2m1a", "q8w7e6r5t"}

CsvRows == << <<[k |-> "a", v |-> 1], [k |-> "b", v |-> 2]>> >>

CsvColumns == <<"a", "b">>

\* response.data of /api/upload/pdf and of /api/upload/csv
PdfResponse == [text |-> Some(PdfText), data |-> None, columns |-> None]

CsvResponse == [text |-> None, data |-> Some(CsvRows), columns |-> Some(CsvColumns)]

\* a tabular file with a header line and no rows
CsvHeaderOnly == [text |-> None, data |-> Some(<<>>), columns |-> Some(CsvColumns)]

\* the branch of onDrop a media type takes (lines 26-41)
Classify(fileType) ==
    IF fileType = TypePdf THEN "pdf"
    ELSE IF fileType = TypeCsv \/ Includes(fileType, ExcelWord) THEN "tabular"
    ELSE "unsupported"

\* uploadResponse as onDrop builds it from the response (lines 28-38)
UploadResponse(fileType, response) ==
    IF Classify(fileType) = "pdf"
    THEN [text |-> response.text, data |-> None, columns |-> None,
          metadata |-> [type |-> "pdf"]]
    ELSE [text |-> None, data |-> response.data, columns |-> response.columns,
          metadata |-> [type |-> "csv"]]

\* the entry onDrop returns for a file (lines 43-50)
UploadedFile(id, file, response) ==
    [id |-> id, file |-> file, name |-> file.name, size |-> file.size,
     type |-> file.type, uploadResponse |-> UploadResponse(file.type, response)]

PerFileResultKeepFailed(thrown, id, file, response) ==
    IF thrown
    THEN Some([id |-> id, file |-> file, name |-> file.name, size |-> file.size,
               type |-> file.type,
               uploadResponse |-> [text |-> None, data |-> None, columns |-> None,
                                   metadata |-> [type |-> "unsupported"]]])
    ELSE Some(UploadedFile(id, file, response))

\* try { ... return entry } catch { return null } (lines 21-54)
PerFileResult(thrown, id, file, response) ==
    IF thrown THEN None ELSE Some(UploadedFile(id, file, response))

\* the request a file's branch of onDrop issues (lines 27 and 33)
Endpoint(fileType) ==
    IF Classify(fileType) = "pdf" THEN "/api/upload/pdf" ELSE "/api/upload/csv"

InitialSlotUploadFirst(file) ==
    [state |-> "pending", value |-> None, request |-> Endpoint(file.type)]

\* a file's promise right after uploadPromises is built: an unsupported type
\* has thrown and settled with null, the others wait for their request
InitialSlot(file) ==
    IF Classify(file.type) = "unsupported"
    THEN [state |-> "settled", value |-> PerFileResult(TRUE, "", file, PdfResponse),
          request |-> "none"]
    ELSE [state |-> "pending", value |-> None, request |-> Endpoint(file.type)]

PromiseAllByCompletion(slots, order) ==
    [k \in 1..Len(order) |-> slots[order[k]].value]

\* Promise.all: the values by input index, whatever the order of settling
PromiseAll(slots, order) == [i \in 1..Len(slots) |-> slots[i].value]

\* uploadedResults.filter(result => result !== null)
RECURSIVE FilterNotNull(_)
FilterNotNull(results) ==
    IF results = <<>> THEN <<>>
    ELSE IF Head(results) = None THEN FilterNotNull(Tail(results))
    ELSE <<TheValue(Head(results))>> \o FilterNotNull(Tail(results))

\* [...uploadedFiles, ...successfulUploads], uploadedFiles being the list
\* of the render in which onDrop was created
FilesAfterBatch(captured, successfulUploads) == captured \o successfulUploads

AnySettled(slots) == \E i \in 1..Len(slots) : slots[i].state = "settled"

\* await Promise.all(uploadPromises) returns (line 57)
AllSettled(slots) == \A i \in 1..Len(slots) : slots[i].state = "settled"

\* uploadedFiles.filter(file => file.id !== id)
RECURSIVE WithoutId(_, _)
WithoutId(files, id) ==
    IF files = <<>> THEN <<>>
    ELSE IF Head(files).id = id THEN WithoutId(Tail(files), id)
    ELSE <<Head(files)>> \o WithoutId(Tail(files), id)

\* the batches a drop can deliver: distinct files, in any order
DropBatches ==
    UNION { { b \in [1..n -> FilePool] : \A i, j \in 1..n : i # j => b[i] # b[j] }
            : n \in 0..Cardinality(FilePool) }

\* a sequence without its element at index b
RemoveAt(seq, b) == SubSeq(seq, 1, b - 1) \o SubSeq(seq, b + 1, Len(seq))

(***************************************************************************)
(* FileUpload.onDrop (lines 19-61).  The part after await Promise.all runs *)
(* when the last pending upload of the batch settles, or at once when no   *)
(* file of the batch issued a request.                                     *)
(***************************************************************************)
NoBatch ==
    [files |-> <<>>, captured |-> <<>>, slots |-> <<>>, order |-> <<>>,
     done |-> FALSE, before |-> <<>>, handed |-> <<>>, removed |-> {}]

NewBatch(acceptedFiles) ==
    [files |-> acceptedFiles,
     captured |-> uploadedFiles,
     slots |-> [i \in 1..Len(acceptedFiles) |-> InitialSlot(acceptedFiles[i])],
     order |-> SelectSeq([i \in 1..Len(acceptedFiles) |-> i],
                         LAMBDA i : Classify(acceptedFiles[i].type) = "unsupported"),
     done |-> FALSE, before |-> <<>>, handed |-> <<>>, removed |-> {}]

\* const uploadedResults = await Promise.all(uploadPromises); ... onFilesChange(...)
Complete(batch) ==
    LET uploadedResults == PromiseAll(batch.slots, batch.order)
        successfulUploads == FilterNotNull(uploadedResults)
    IN [batch EXCEPT !.done = TRUE,
                     !.before = uploadedFiles,
                     !.handed = FilesAfterBatch(batch.captured, successfulUploads)]

OnDropFrom(dropBatches, maxBatches, maxDropped) ==
    \E acceptedFiles \in dropBatches :
        /\ dropped.batches < maxBatches
        /\ dropped.files + Len(acceptedFiles) <= maxDropped
        /\ dropped' = [batches |-> dropped.batches + 1,
                       files |-> dropped.files + Len(acceptedFiles)]
        /\ LET batch == NewBatch(acceptedFiles)
           IN IF AllSettled(batch.slots)
              THEN /\ lastBatch' = Complete(batch)
                   /\ uploadedFiles' = Complete(batch).handed
                   /\ UNCHANGED batches
              ELSE /\ batches' = Append(batches, batch)
                   /\ lastBatch' = NoBatch
                   /\ UNCHANGED uploadedFiles
        /\ UNCHANGED <<chatVars, selectedPersona>>

OnDrop == OnDropFrom(DropBatches, MaxBatches, MaxDropped)

\* one upload request of a batch resolves or rejects; csvResponses are the
\* bodies /api/upload/csv can answer with
SettleUploadWith(csvResponses) ==
    \E b \in 1..Len(batches), thrown \in BOOLEAN, id \in Ids :
        \E i \in 1..Len(batches[b].slots) :
            \E response \in IF Classify(batches[b].files[i].type) = "pdf"
                             THEN {PdfResponse} ELSE csvResponses :
                /\ batches[b].slots[i].state = "pending"
                /\ LET file == batches[b].files[i]
                       batch == [batches[b] EXCEPT
                                    !.slots[i].state = "settled",
                                    !.slots[i].value = PerFileResult(thrown, id, file, response),
                                    !.order = Append(@, i)]
                   IN IF AllSettled(batch.slots)
                      THEN /\ batches' = RemoveAt(batches, b)
                           /\ lastBatch' = Complete(batch)
                           /\ uploadedFiles' = Complete(batch).handed
                      ELSE /\ batches' = [batches EXCEPT ![b] = batch]
                           /\ lastBatch' = NoBatch
                           /\ UNCHANGED uploadedFiles
                /\ UNCHANGED <<chatVars, selectedPersona, dropped>>

SettleUpload == SettleUploadWith({CsvResponse})

\* FileUpload.removeFile (lines 74-76), from the remove button of an entry
RemoveFileNoting(noting) ==
    \E k \in 1..Len(uploadedFiles) :
        /\ uploadedFiles' = WithoutId(uploadedFiles, uploadedFiles[k].id)
        /\ lastBatch' = NoBatch
        /\ batches' = [b \in 1..Len(batches) |->
                          [batches[b] EXCEPT !.removed =
                              IF noting
                              THEN @ \cup {uploadedFiles[j] :
                                              j \in {h \in 1..Len(uploadedFiles) :
                                                        uploadedFiles[h].id = uploadedFiles[k].id}}
                              ELSE @]]
        /\ UNCHANGED <<chatVars, selectedPersona, dropped>>

\* the batches in flight do not note the removals
RemoveFile == RemoveFileNoting(FALSE)

\* each batch in flight notes the entries removed since it started
RemoveFileNoted == RemoveFileNoting(TRUE)

(***************************************************************************)
(* Specifications.                                                         *)
(***************************************************************************)
Init ==
    /\ messages = <<>>
    /\ isLoading = FALSE
    /\ draft = <<>>
    /\ exchanges = <<>>
    /\ clock = 0
    /\ lastCall = NoCall
    /\ selectedPersona = DefaultPersona
    /\ uploadedFiles = <<>>
    /\ batches = <<>>
    /\ lastBatch = NoBatch
    /\ dropped = [batches |-> 0, files |-> 0]
    /\ downloads = <<>>

NextChat ==
    \/ CallHandleSendMessage
    \/ ClickSuggestion
    \/ TypeDraft
    \/ HandleSubmit
    \/ SettleExchange

SpecChat == Init /\ [][NextChat]_vars

NextUpload ==
    \/ OnDrop
    \/ SettleUpload
    \/ RemoveFile

SpecUpload == Init /\ [][NextUpload]_vars

(***************************************************************************)
(* Uploads followed by sends: what the chat request says about the files.  *)
(***************************************************************************)
ContextPool == { f \in FilePool : f.type \in {TypePdf, TypeCsv} }

ContextBatches ==
    UNION { { b \in [1..n -> ContextPool] : \A i, j \in 1..n : i # j => b[i] # b[j] }
            : n \in 0..Cardinality(ContextPool) }

ContextDrop == OnDropFrom(ContextBatches, MaxContextBatches, MaxContextDropped)

ContextSettleUpload == SettleUploadWith({CsvResponse, CsvHeaderOnly})

\* handleSendMessage with a text that is not blank
SendWithin(maxSends) ==
    \E message \in {m \in TypedTexts : Truthy(Trim(m))} :
        /\ Len(exchanges) < maxSends
        /\ HandleSendMessage(message)
        /\ lastCall' = [op |-> "handleSendMessage", message |-> message]
        /\ UNCHANGED <<draft, selectedPersona, uploadVars, downloads>>

\* PersonaSelector: the ids of its cards
Personas == {"Novice Guide", "Expert Consultant", "Skeptical Manager"}

\* onClick of a persona card: onPersonaChange(persona.id) = setSelectedPersona
OnPersonaChange ==
    \E persona \in Personas :
        /\ selectedPersona' = persona
        /\ lastBatch' = NoBatch
        /\ UNCHANGED <<chatVars, uploadedFiles, batches, dropped>>

ContextSend == SendWithin(MaxContextSends)

NextContext ==
    \/ ContextDrop
    \/ ContextSettleUpload
    \/ RemoveFile
    \/ ContextSend

SpecContext == Init /\ [][NextContext]_vars

(***************************************************************************)
(* ChartDisplay: the Download Chart button (lines 170-174), shown for a    *)
(* message whose chartData is truthy (ChatInterface, lines 192-203).       *)
(***************************************************************************)
WordChars ==
    { "a", "b", "c", "d", "e", "f", "g", "h", "i", "j", "k", "l", "m", "n", "o", "p", "q",
      "r", "s", "t", "u", "v", "w", "x", "y", "z", "A", "B", "C", "D", "E", "F", "G", "H",
      "I", "J", "K", "L", "M", "N", "O", "P", "Q", "R", "S", "T", "U", "V", "W", "X", "Y",
      "Z", "0", "1", "2", "3", "4", "5", "6", "7", "8", "9", "_" }

DataImage == <<"d", "a", "t", "a", ":", "i", "m", "a", "g", "e", "/">>

Base64Mark == <<";", "b", "a", "s", "e", "6", "4", ",">>

StartsWith(s, p) == Len(s) >= Len(p) /\ SubSeq(s, 1, Len(p)) = p

\* chartData.replace(/^data:image\/\w+;base64,/, "")
StripDataUrlPrefix(chartData) ==
    IF ~StartsWith(chartData, DataImage) THEN chartData
    ELSE LET rest == SubSeq(chartData, Len(DataImage) + 1, Len(chartData))
             word == IF \A j \in 1..Len(rest) : rest[j] \in WordChars THEN Len(rest)
                     ELSE (CHOOSE j \in 1..Len(rest) :
                              /\ rest[j] \notin WordChars
                              /\ \A h \in 1..(j - 1) : rest[h] \in WordChars) - 1
             after == SubSeq(rest, word + 1, Len(rest))
         IN IF word >= 1 /\ StartsWith(after, Base64Mark)
            THEN SubSeq(after, Len(Base64Mark) + 1, Len(after))
            ELSE chartData

ChartSuffix == <<"-", "c", "h", "a", "r", "t", ".", "p", "n", "g">>

ExportFilenameKeepUnderscore(toolType) == toolType \o ChartSuffix

ExportFilenameFirstOnly(toolType) ==
    [j \in 1..Len(toolType) |->
        IF toolType[j] = "_" /\ \A h \in 1..(j - 1) : toolType[h] # "_"
        THEN "-" ELSE toolType[j]] \o ChartSuffix

\* `${toolType.replace(/_/g, '-')}-chart.png`
ExportFilename(toolType) ==
    [j \in 1..Len(toolType) |-> IF toolType[j] = "_" THEN "-" ELSE toolType[j]]
    \o ChartSuffix

\* toolType={message.toolType || ''}
ToolTypeProp(message) ==
    IF message.toolType = None THEN <<>> ELSE TheValue(message.toolType)

MessagesAfterExportStripped(list, k) ==
    [list EXCEPT ![k].chartData = Some(StripDataUrlPrefix(TheValue(list[k].chartData)))]

\* the handler sets no state and a string is immutable: the list stays
MessagesAfterExport(list, k) == list

\* bodies of /api/chat with a chart, and one without
ExportBodies ==
    { [kind |-> "object", message |-> Some(ResponseText), tool_result |-> None, tool_type |-> None] }
    \cup { [kind |-> "object", message |-> Some(ResponseText),
            tool_result |-> Some(ToolResultWith(ChartBase64)), tool_type |-> t]
           : t \in {Some(ParetoChart), Some(DoubleUnderscore), Some(WithSpace), None} }
    \cup { [kind |-> "object", message |-> Some(ResponseText),
            tool_result |-> Some(ToolResultWith(ChartDataUrl)), tool_type |-> Some(ParetoChart)] }

ExportOutcomes == { [settled |-> "fulfilled", data |-> d, error |-> ""] : d \in ExportBodies }

ExportSend ==
    \E message \in {m \in TypedTexts : Truthy(Trim(m))} :
        /\ Len(exchanges) < MaxExportSends
        /\ HandleSendMessage(message)
        /\ lastCall' = [op |-> "handleSendMessage", message |-> message]
        /\ UNCHANGED <<draft, selectedPersona, uploadVars, downloads>>

ExportSettle == SettleExchangeWith(ExportOutcomes)

\* onClick of Download Chart of message k.  Buffer is a global the module
\* does not import: where the bundle does not provide it, the handler throws
\* before saveAs.
ExportChart ==
    \E k \in 1..Len(messages), hasBuffer \in BOOLEAN :
        /\ Len(downloads) < MaxExports
        /\ messages[k].chartData # None
        /\ Truthy(TheValue(messages[k].chartData))
        /\ LET chartData == TheValue(messages[k].chartData)
               toolType == ToolTypeProp(messages[k])
               base64Data == StripDataUrlPrefix(chartData)
           IN downloads' = Append(downloads,
                  [message |-> k, chartData |-> chartData, toolType |-> toolType,
                   saved |-> hasBuffer,
                   base64Data |-> IF hasBuffer THEN Some(base64Data) ELSE None,
                   filename |-> IF hasBuffer THEN Some(ExportFilename(toolType)) ELSE None])
        /\ messages' = MessagesAfterExport(messages, k)
        /\ lastCall' = NoCall
        /\ UNCHANGED <<isLoading, draft, exchanges, clock, selectedPersona, uploadVars>>

NextExport ==
    \/ ExportSend
    \/ ExportSettle
    \/ ExportChart

SpecExport == Init /\ [][NextExport]_vars

(***************************************************************************)
(* Sends while files come and go and the persona changes.                  *)
(***************************************************************************)
RequestPool == { f \in FilePool : f.type \in {TypePdf, TypeXls} }

RequestBatches ==
    UNION { { b \in [1..n -> RequestPool] : \A i, j \in 1..n : i # j => b[i] # b[j] }
            : n \in 0..Cardinality(RequestPool) }

RequestDrop == OnDropFrom(RequestBatches, MaxRequestBatches, MaxRequestDropped)

RequestSend == SendWithin(MaxRequestSends)

NextRequest ==
    \/ RequestDrop
    \/ SettleUpload
    \/ RemoveFile
    \/ OnPersonaChange
    \/ RequestSend

SpecRequest == Init /\ [][NextRequest]_vars

(***************************************************************************)
(* Uploads of every accepted kind followed by sends.                       *)
(***************************************************************************)
BranchPool == { f \in FilePool : f.type \in {TypePdf, TypeCsv, TypeXls} }

BranchBatches ==
    UNION { { b \in [1..n -> BranchPool] : \A i, j \in 1..n : i # j => b[i] # b[j] }
            : n \in 0..Cardinality(BranchPool) }

BranchDrop == OnDropFrom(BranchBatches, MaxRequestBatches, MaxRequestDropped)

NextBranch ==
    \/ BranchDrop
    \/ SettleUpload
    \/ RequestSend

SpecBranch == Init /\ [][NextBranch]_vars

(***************************************************************************)
(* Batches and removals, each batch noting what was removed meanwhile.     *)
(***************************************************************************)
RemovalDrop == OnDropFrom(ContextBatches, MaxRemovalBatches, MaxRemovalDropped)

NextRemoval ==
    \/ RemovalDrop
    \/ SettleUpload
    \/ RemoveFileNoted

SpecRemoval == Init /\ [][NextRemoval]_vars

\* no upload call stays pending for ever
SpecRemovalFair == SpecRemoval /\ WF_vars(SettleUpload)

(***************************************************************************)
(* Sends started through the rendered controls only.                       *)
(***************************************************************************)
NextUI ==
    \/ ClickSuggestion
    \/ TypeDraft
    \/ HandleSubmit
    \/ SettleExchange

SpecUI == Init /\ [][NextUI]_vars

(***************************************************************************)
(* Calls of the handler and their settling, no call pending for ever.      *)
(***************************************************************************)
LiveSend ==
    \E message \in TypedTexts :
        /\ Truthy(Trim(message)) => Len(exchanges) < MaxLiveSends
        /\ HandleSendMessage(message)
        /\ lastCall' = [op |-> "handleSendMessage", message |-> message]
        /\ UNCHANGED <<draft, selectedPersona, uploadVars, downloads>>

NextLive ==
    \/ LiveSend
    \/ SettleExchange

SpecLive == Init /\ [][NextLive]_vars /\ WF_vars(SettleExchange)

Next ==
    NextChat \/ NextUI \/ NextLive \/ NextUpload \/ NextContext \/ NextExport \/ NextRequest \/ NextBranch
    \/ NextRemoval

Spec == Init /\ [][Next]_vars

(***************************************************************************)
(* Properties of the conversation (SpecChat).                              *)
(***************************************************************************)
IsPrefix(a, b) == Len(a) <= Len(b) /\ SubSeq(b, 1, Len(a)) = a

IsBlankText(s) == \A k \in 1..Len(s) : s[k] \in Whitespace

Settled(i) == exchanges[i].outcome.settled # "pending"

CountRole(role) == Cardinality({k \in 1..Len(messages) : messages[k].role = role})

\* role assistant, the fixed apology, no chart field
IsFallback(m) ==
    /\ m.role = "assistant"
    /\ m.content = Some(ApologyText)
    /\ m.chartData = None
    /\ m.toolType = None
    /\ m.statistics = None
    /\ m.chartMetadata = None

\* C1: every non-blank invocation of handleSendMessage whose call has settled
\* has appended exactly one assistant message, and a pending one none: the
\* assistant messages in the list are as many as the settled exchanges,
\* whatever the outcomes and however many exchanges are outstanding.
C1_ExactlyOneAssistantMessage ==
    CountRole("assistant") = Cardinality({i \in 1..Len(exchanges) : Settled(i)})

\* two exchanges were outstanding together; the first failed, the second
\* succeeded, and both have appended their message
C1_Witness ==
    /\ Len(exchanges) = 2
    /\ Settled(1) /\ Settled(2)
    /\ exchanges[2].userPos < exchanges[1].replyPos
    /\ Throws(exchanges[1].outcome)
    /\ ~Throws(exchanges[2].outcome)

\* C2: a step that is a call of handleSendMessage or of ChatInput.handleSubmit
\* with an empty or whitespace-only text changes neither the message list nor
\* isLoading and issues no request.
C2_BlankSendIsNoOp ==
    [][ (/\ lastCall'.op \in {"handleSendMessage", "handleSubmit"}
         /\ IsBlankText(lastCall'.message))
        => UNCHANGED <<messages, isLoading, exchanges>> ]_vars

\* a whitespace-only draft was submitted while the input was enabled and the
\* list already held an exchange
C2_Witness ==
    /\ lastCall.op = "handleSubmit"
    /\ lastCall.message = <<" ", "\t">>
    /\ ~isLoading
    /\ Len(messages) = 2

\* C3: the message list only grows at its end: in every step the list before
\* is a prefix of the list after.
C3_AppendOnly == [][IsPrefix(messages, messages')]_vars

\* two exchanges outstanding together, answered in the reverse order
C3_Witness ==
    /\ Len(exchanges) = 2
    /\ Settled(1) /\ Settled(2)
    /\ exchanges[2].replyPos < exchanges[1].replyPos
    /\ Len(messages) = 4

\* C7: when the call of /api/chat rejects, the message appended for it is the
\* fixed apology with no chart field, whatever the error.
C7_FailureFallback ==
    \A i \in 1..Len(exchanges) :
        exchanges[i].outcome.settled = "rejected"
            => IsFallback(messages[exchanges[i].replyPos])

\* two exchanges rejected with different errors
C7_Witness ==
    /\ Len(exchanges) = 2
    /\ exchanges[1].outcome.settled = "rejected"
    /\ exchanges[2].outcome.settled = "rejected"
    /\ exchanges[1].outcome.error # exchanges[2].outcome.error

\* the response body is not a ChatResponse: not an object, or no message
Malformed(data) == data.kind # "object" \/ data.message = None

FailedExchange(outcome) ==
    \/ outcome.settled = "rejected"
    \/ outcome.settled = "fulfilled" /\ Malformed(outcome.data)

\* C8: every failed exchange, a rejection or a malformed response body, ends
\* in the fallback assistant message.
C8_EveryFailureBecomesFallback ==
    \A i \in 1..Len(exchanges) :
        FailedExchange(exchanges[i].outcome)
            => IsFallback(messages[exchanges[i].replyPos])

\* C9: the chat_history of every request is the message list up to, and
\* without, the user message of that request.
C9_HistoryIsListBeforeUserMessage ==
    \A i \in 1..Len(exchanges) :
        LET e == exchanges[i]
        IN /\ e.userPos \in 1..Len(messages)
           /\ messages[e.userPos].role = "user"
           /\ messages[e.userPos].content = Some(e.request.message)
           /\ e.request.chat_history =
                  JSONStringifyHistory(SubSeq(messages, 1, e.userPos - 1))

\* a second send whose history holds the first user message and its answer
C9_Witness ==
    /\ Len(exchanges) = 2
    /\ Len(exchanges[2].request.chat_history) = 2
    /\ exchanges[2].request.chat_history[2].role = "assistant"

\* the contents of the user messages of the list, in list order
UserContents ==
    LET users == SelectSeq(messages, LAMBDA m : m.role = "user")
    IN [k \in 1..Len(users) |-> users[k].content]

\* C10: as soon as a request is issued its user message is in the list, and
\* the user messages of the list are those of the sends in the order of the
\* sends, whatever the order of the answers.
C10_UserMessagesInSendOrder ==
    UserContents = [i \in 1..Len(exchanges) |-> Some(exchanges[i].request.message)]

\* two sends of different texts, the second answered first
C10_Witness ==
    /\ Len(exchanges) = 2
    /\ exchanges[1].request.message # exchanges[2].request.message
    /\ Settled(1) /\ Settled(2)
    /\ exchanges[2].replyPos < exchanges[1].replyPos

(***************************************************************************)
(* Properties of the upload batches (SpecUpload).                          *)
(***************************************************************************)
\* the files of a batch whose upload succeeded, in input order
SucceededFiles(batch) ==
    LET indices == SelectSeq([i \in 1..Len(batch.files) |-> i],
                             LAMBDA i : batch.slots[i].value # None)
    IN [k \in 1..Len(indices) |-> batch.files[indices[k]]]

\* the entries of a batch whose upload succeeded, in input order
SucceededEntries(batch) ==
    LET indices == SelectSeq([i \in 1..Len(batch.files) |-> i],
                             LAMBDA i : batch.slots[i].value # None)
    IN [k \in 1..Len(indices) |-> TheValue(batch.slots[indices[k]].value)]

\* the entries a completed batch put behind the list it had captured
AddedEntries(batch) == SubSeq(batch.handed, Len(batch.captured) + 1, Len(batch.handed))

\* C4: the entries a batch adds are its successfully parsed files in input
\* order, whatever the order in which its uploads settled.
C4_InputOrderPreserved ==
    lastBatch.done =>
        [k \in 1..Len(AddedEntries(lastBatch)) |-> AddedEntries(lastBatch)[k].file]
            = SucceededFiles(lastBatch)

\* a batch with two successful uploads that settled against the input order
C4_Witness ==
    /\ lastBatch.done
    /\ Len(SucceededFiles(lastBatch)) = 2
    /\ \E k \in 1..(Len(lastBatch.order) - 1) : lastBatch.order[k] > lastBatch.order[k + 1]

\* C5: a batch completes for every combination of outcomes, and the list it
\* hands to onFilesChange is the list before the completion followed by
\* exactly the successful files; with no successful file the list is unchanged.
C5_PartialFailureIsolation ==
    /\ \A b \in 1..Len(batches) : ~AllSettled(batches[b].slots)
    /\ lastBatch.done =>
          /\ lastBatch.handed = lastBatch.before \o SucceededEntries(lastBatch)
          /\ SucceededEntries(lastBatch) = <<>> => uploadedFiles = lastBatch.before

\* C6: completing a batch keeps every entry that is in the list at that
\* moment, in the same order, in front of the new entries.
C6_CompletionKeepsEntries ==
    lastBatch.done => IsPrefix(lastBatch.before, lastBatch.handed)

(***************************************************************************)
(* Properties of the response merger (SpecChat).                           *)
(***************************************************************************)
\* the exchange was answered and the try block ran to its end
Succeeded(i) ==
    exchanges[i].outcome.settled = "fulfilled" /\ exchanges[i].outcome.data.kind # "null"

\* C11 as stated: on success the content is the response message, and each
\* of chartData, toolType, statistics, chartMetadata is set exactly when the
\* response carries a tool result.
C11_ChartFieldsIffToolResult ==
    \A i \in 1..Len(exchanges) :
        Succeeded(i) =>
            LET data == exchanges[i].outcome.data
                m == messages[exchanges[i].replyPos]
            IN /\ m.content = data.message
               /\ (m.chartData # None) = (data.tool_result # None)
               /\ (m.toolType # None) = (data.tool_result # None)
               /\ (m.statistics # None) = (data.tool_result # None)
               /\ (m.chartMetadata # None) = (data.tool_result # None)

\* C11 amended: on success the content is the response message; chartData,
\* statistics and chartMetadata are the chart_data, data_summary and
\* chart_metadata of the tool result and are unset without one; toolType is
\* the tool_type of the response, with or without a tool result.
C11_FieldsCopiedFromResponse ==
    \A i \in 1..Len(exchanges) :
        Succeeded(i) =>
            LET data == exchanges[i].outcome.data
                m == messages[exchanges[i].replyPos]
            IN /\ m.role = "assistant"
               /\ m.content = data.message
               /\ m.toolType = data.tool_type
               /\ IF data.tool_result = None
                  THEN m.chartData = None /\ m.statistics = None /\ m.chartMetadata = None
                  ELSE /\ m.chartData = TheValue(data.tool_result).chart_data
                       /\ m.statistics = TheValue(data.tool_result).data_summary
                       /\ m.chartMetadata = TheValue(data.tool_result).chart_metadata

\* one answer with a tool result and one with tool_type but no tool result
C11_Witness ==
    /\ Len(exchanges) = 2
    /\ Succeeded(1) /\ Succeeded(2)
    /\ exchanges[1].outcome.data.tool_result # None
    /\ exchanges[2].outcome.data.tool_result = None
    /\ exchanges[2].outcome.data.tool_type # None
    /\ messages[exchanges[2].replyPos].toolType = Some(ParetoChart)

(***************************************************************************)
(* Properties of the file classification (SpecUpload).                     *)
(***************************************************************************)
\* the invocations of onDrop the state knows: those in flight and the last
\* completed one
KnownBatches == {batches[b] : b \in 1..Len(batches)} \cup {lastBatch}

\* the upload call C12 expects for a media type
ExpectedEndpoint(fileType) ==
    IF fileType = TypePdf THEN "/api/upload/pdf"
    ELSE IF fileType \in {TypeCsv, TypeXls, TypeXlsx} THEN "/api/upload/csv"
    ELSE "none"

\* C12: application/pdf goes to uploadPDF, text/csv and both Excel media
\* types the dropzone accepts go to uploadCSV, every other type to no call.
C12_ClassificationByMediaType ==
    \A batch \in KnownBatches :
        \A i \in 1..Len(batch.files) :
            batch.slots[i].request = ExpectedEndpoint(batch.files[i].type)

\* C13: every entry of the uploaded-file list carries a parsed result of
\* kind csv or pdf, and is no file of unsupported type.
C13_ListHoldsParsedFilesOnly ==
    \A k \in 1..Len(uploadedFiles) :
        LET entry == uploadedFiles[k]
        IN /\ entry.uploadResponse.metadata.type \in {"csv", "pdf"}
           /\ Classify(entry.type) # "unsupported"
           /\ entry.uploadResponse.metadata.type = "pdf" => entry.uploadResponse.text # None
           /\ entry.uploadResponse.metadata.type = "csv" => entry.uploadResponse.data # None

\* a batch with a failed or unsupported file completed, and after a removal
\* the list still holds a parsed entry
C13_Witness ==
    /\ lastBatch = NoBatch
    /\ dropped.batches = 2
    /\ Len(uploadedFiles) = 1
    /\ uploadedFiles[1].uploadResponse.metadata.type = "csv"
    /\ dropped.files = 3
    /\ batches = <<>>

\* C20: a file of unsupported type issues no upload request and settles with
\* null at once; the requests of a batch are as many as its files of PDF or
\* tabular type, one per file.
C20_NoRequestForUnsupported ==
    \A batch \in KnownBatches :
        /\ \A i \in 1..Len(batch.files) :
              Classify(batch.files[i].type) = "unsupported"
                  => /\ batch.slots[i].request = "none"
                     /\ batch.slots[i].state = "settled"
                     /\ batch.slots[i].value = None
        /\ Cardinality({i \in 1..Len(batch.files) : batch.slots[i].request # "none"})
              = Cardinality({i \in 1..Len(batch.files) :
                                Classify(batch.files[i].type) \in {"pdf", "tabular"}})

\* a completed batch of an image and a PDF: one request for two files
C20_Witness ==
    /\ lastBatch.done
    /\ Len(lastBatch.files) = 2
    /\ lastBatch.files[1].type = TypePng
    /\ lastBatch.files[2].type = TypePdf
    /\ lastBatch.slots[1].request = "none"
    /\ lastBatch.slots[2].request = "/api/upload/pdf"
    /\ Len(lastBatch.handed) = 1

(***************************************************************************)
(* Properties of the file context of a chat request (SpecContext).         *)
(***************************************************************************)
\* C14: a send made while the uploaded-file list is empty posts a
\* csv_context part holding the text of an empty array; the part is there.
C14_EmptyListSendsEmptyArray ==
    \A i \in 1..Len(exchanges) :
        exchanges[i].files = <<>>
            => exchanges[i].request.csv_context
                   = Some([open |-> "[", records |-> <<>>, close |-> "]"])

\* a send before any drop, and one after every file was removed or failed
C14_Witness ==
    /\ Len(exchanges) = 1
    /\ exchanges[1].files = <<>>
    /\ exchanges[1].request.csv_context # None
    /\ dropped.batches = 1
    /\ dropped.files > 0

\* JSON.parse of the text JSON.stringify made of rows: pairs "k":d between
\* braces, objects between brackets; any other text is a syntax error (None)
RECURSIVE JSONParsePairs(_)
JSONParsePairs(body) ==
    IF body = <<>> THEN <<>>
    ELSE IF Head(body) = "," THEN JSONParsePairs(Tail(body))
    ELSE <<[k |-> body[2],
            v |-> (CHOOSE d \in 1..Len(Digits) : Digits[d] = body[5]) - 1]>>
         \o JSONParsePairs(SubSeq(body, 6, Len(body)))

RECURSIVE JSONParseObjects(_)
JSONParseObjects(inner) ==
    IF inner = <<>> THEN <<>>
    ELSE IF Head(inner) = "," THEN JSONParseObjects(Tail(inner))
    ELSE LET close == CHOOSE j \in 1..Len(inner) :
                          inner[j] = "}" /\ \A h \in 1..(j - 1) : inner[h] # "}"
         IN <<JSONParsePairs(SubSeq(inner, 2, close - 1))>>
            \o JSONParseObjects(SubSeq(inner, close + 1, Len(inner)))

JSONParseRows(text) ==
    IF Len(text) >= 2 /\ text[1] = "[" /\ text[Len(text)] = "]"
    THEN Some(JSONParseObjects(SubSeq(text, 2, Len(text) - 1)))
    ELSE None

\* the columns parsed rows show: the keys of the first row
ColumnsOf(parsed) ==
    IF parsed = None THEN None
    ELSE IF TheValue(parsed) = <<>> THEN Some(<<>>)
    ELSE Some([c \in 1..Len(TheValue(parsed)[1]) |-> TheValue(parsed)[1][c].k])

\* the records of the request of exchange i, one per file of the list
RecordsOf(i) == TheValue(exchanges[i].request.csv_context).records

IsTabularEntry(f) == f.uploadResponse.metadata.type = "csv"

\* C15 as stated: parsing the content of a tabular file's record gives back
\* the rows and the columns of the upload response.
C15_ContentReproducesRowsAndColumns ==
    \A i \in 1..Len(exchanges) :
        \A k \in 1..Len(exchanges[i].files) :
            LET f == exchanges[i].files[k]
                parsed == JSONParseRows(RecordsOf(i)[k].content)
            IN IsTabularEntry(f)
                   => /\ parsed = f.uploadResponse.data
                      /\ ColumnsOf(parsed) = f.uploadResponse.columns

\* C15: parsing the content of a tabular file's record gives back the rows
\* of the upload response; the columns travel in metadata.columns of the
\* record.
C15_ContentReproducesRows ==
    \A i \in 1..Len(exchanges) :
        /\ exchanges[i].request.csv_context # None
        /\ Len(RecordsOf(i)) = Len(exchanges[i].files)
        /\ \A k \in 1..Len(exchanges[i].files) :
               LET f == exchanges[i].files[k]
                   parsed == JSONParseRows(RecordsOf(i)[k].content)
               IN IsTabularEntry(f)
                      => /\ parsed = f.uploadResponse.data
                         /\ Some(RecordsOf(i)[k].metadata.columns) = f.uploadResponse.columns

\* a send with a document and a tabular file of one row in the list
C15_Witness ==
    /\ Len(exchanges) = 1
    /\ Len(exchanges[1].files) = 2
    /\ exchanges[1].files[2].uploadResponse.data = Some(CsvRows)
    /\ JSONParseRows(RecordsOf(1)[2].content) = Some(CsvRows)
    /\ RecordsOf(1)[2].metadata.columns = CsvColumns
    /\ exchanges[1].files[1].uploadResponse.metadata.type = "pdf"

(***************************************************************************)
(* Properties of the chart export (SpecExport).                            *)
(***************************************************************************)
\* the clicks of Download Chart that reached saveAs
Saved == {a \in 1..Len(downloads) : downloads[a].saved}

ParetoFilename ==
    <<"p", "a", "r", "e", "t", "o", "-", "c", "h", "a", "r", "t", "-", "c", "h", "a", "r", "t", ".", "p", "n", "g">>

\* C16: two exports with the same toolType get the same filename, whatever
\* their chartData and whatever was exported before, and toolType
\* 'pareto_chart' gets 'pareto-chart-chart.png'.
C16_FilenameFromToolTypeAlone ==
    /\ \A a, b \in Saved :
           downloads[a].toolType = downloads[b].toolType
               => downloads[a].filename = downloads[b].filename
    /\ \A a \in Saved :
           downloads[a].toolType = ParetoChart
               => downloads[a].filename = Some(ParetoFilename)

\* two pareto charts with different images were exported one after the other
C16_Witness ==
    /\ Len(downloads) = 2
    /\ Saved = {1, 2}
    /\ downloads[1].toolType = ParetoChart
    /\ downloads[2].toolType = ParetoChart
    /\ downloads[1].chartData # downloads[2].chartData
    /\ downloads[1].filename = downloads[2].filename

\* C17: an export leaves the message list as it was, and the chartData every
\* export read is still the chartData of its message.
C17_ExportLeavesMessages ==
    [][ Len(downloads') > Len(downloads)
            => /\ messages' = messages
               /\ \A a \in 1..Len(downloads') :
                      Some(downloads'[a].chartData) = messages'[downloads'[a].message].chartData
      ]_vars

\* the same data-URL chart was exported twice and is still held unchanged
C17_Witness ==
    /\ Len(downloads) = 2
    /\ downloads[1].message = downloads[2].message
    /\ downloads[1].saved
    /\ downloads[1].chartData = ChartDataUrl
    /\ downloads[1].base64Data # Some(ChartDataUrl)
    /\ downloads[2].chartData = ChartDataUrl
    /\ messages[downloads[1].message].chartData = Some(ChartDataUrl)

Alphanumeric == WordChars \ {"_"}

RECURSIVE SkipSeparators(_)
SkipSeparators(s) ==
    IF s = <<>> \/ Head(s) \in Alphanumeric THEN s ELSE SkipSeparators(Tail(s))

\* every run of characters that are not alphanumeric becomes one '-'
RECURSIVE NormalizeSeparators(_)
NormalizeSeparators(s) ==
    IF s = <<>> THEN <<>>
    ELSE IF Head(s) \in Alphanumeric THEN <<Head(s)>> \o NormalizeSeparators(Tail(s))
    ELSE <<"-">> \o NormalizeSeparators(SkipSeparators(Tail(s)))

\* C18 as stated: the filename is toolType with each run of separators
\* replaced by a single '-', followed by '-chart.png'.
C18_SeparatorRunsNormalized ==
    \A a \in Saved :
        downloads[a].filename
            = Some(NormalizeSeparators(downloads[a].toolType)
                   \o <<"-", "c", "h", "a", "r", "t", ".", "p", "n", "g">>)

\* C18: the filename is toolType with every underscore replaced by '-' and
\* every other character kept, followed by '-chart.png'.
C18_UnderscoresReplaced ==
    \A a \in Saved :
        LET toolType == downloads[a].toolType
            name == TheValue(downloads[a].filename)
        IN /\ downloads[a].filename # None
           /\ Len(name) = Len(toolType) + 10
           /\ \A j \in 1..Len(toolType) :
                  name[j] = IF toolType[j] = "_" THEN "-" ELSE toolType[j]
           /\ SubSeq(name, Len(toolType) + 1, Len(name))
                  = <<"-", "c", "h", "a", "r", "t", ".", "p", "n", "g">>

\* a chart of tool type 'a__b' and one of tool type 'a b' were exported
C18_Witness ==
    /\ Len(downloads) = 2
    /\ Saved = {1, 2}
    /\ downloads[1].toolType = DoubleUnderscore
    /\ downloads[1].filename = Some(<<"a", "-", "-", "b", "-", "c", "h", "a", "r", "t", ".", "p", "n", "g">>)
    /\ downloads[2].toolType = WithSpace
    /\ downloads[2].filename = Some(<<"a", " ", "b", "-", "c", "h", "a", "r", "t", ".", "p", "n", "g">>)

(***************************************************************************)
(* Concurrent exchanges (SpecChat).                                        *)
(***************************************************************************)
PendingExchanges == {i \in 1..Len(exchanges) : ~Settled(i)}

\* C19: a call of handleSendMessage with a text that is not blank starts an
\* exchange whether or not an earlier one is pending, and while several are
\* pending any of them can be the next to be answered.
C19_NoInFlightGuard ==
    /\ lastCall.op = "handleSendMessage" /\ ~IsBlankText(lastCall.message)
           => /\ exchanges # <<>>
              /\ exchanges[Len(exchanges)].request.message = lastCall.message
              /\ ~Settled(Len(exchanges))
    /\ Cardinality(PendingExchanges) >= 2
           => \A i \in PendingExchanges : ENABLED SettleExchangeAt(i, Outcomes)

\* two exchanges were pending together and the later send was answered first
C19_Witness ==
    /\ Len(exchanges) = 2
    /\ exchanges[1].userPos = 1
    /\ exchanges[2].userPos = 2
    /\ exchanges[2].replyPos = 3
    /\ exchanges[1].replyPos = 4
    /\ lastCall = NoCall

(***************************************************************************)
(* The request of a send and the state it was built from (SpecContext).    *)
(***************************************************************************)
\* C21: a send builds its request from the list and the persona of that
\* moment, one record per entry in list order, and no later upload, removal
\* or change of persona alters the request of an exchange.
C21_RequestFromStateAtSend ==
    [][ /\ \A i \in 1..Len(exchanges) : exchanges'[i].request = exchanges[i].request
        /\ Len(exchanges') > Len(exchanges)
               => LET request == exchanges'[Len(exchanges')].request
                      records == TheValue(request.csv_context).records
                  IN /\ request.persona = selectedPersona
                     /\ request.csv_context # None
                     /\ Len(records) = Len(uploadedFiles)
                     /\ \A k \in 1..Len(uploadedFiles) :
                            /\ records[k].name = uploadedFiles[k].name
                            /\ records[k].type = uploadedFiles[k].type
      ]_vars

\* while the exchange is in flight the file was removed and the persona
\* changed; the request still names the file and the earlier persona
C21_Witness ==
    /\ Len(exchanges) = 1
    /\ exchanges[1].outcome.settled = "pending"
    /\ Len(RecordsOf(1)) = 1
    /\ uploadedFiles = <<>>
    /\ exchanges[1].request.persona = "Expert Consultant"
    /\ selectedPersona = "Skeptical Manager"

(***************************************************************************)
(* Parse branch and serialization branch (SpecBranch).                     *)
(***************************************************************************)
\* C28: in every request, an entry parsed through uploadCSV is serialized as
\* the JSON text of its rows with its columns in metadata, and an entry
\* parsed through uploadPDF as its extracted text.
C28_SerializationFollowsParse ==
    \A i \in 1..Len(exchanges) :
        \A k \in 1..Len(exchanges[i].files) :
            LET f == exchanges[i].files[k]
                record == RecordsOf(i)[k]
            IN /\ f.uploadResponse.metadata.type \in {"csv", "pdf"}
               /\ f.uploadResponse.metadata.type = "csv"
                      => /\ JSONParseRows(record.content) = f.uploadResponse.data
                         /\ Some(record.metadata.columns) = f.uploadResponse.columns
               /\ f.uploadResponse.metadata.type = "pdf"
                      => /\ Some(record.content) = f.uploadResponse.text
                         /\ JSONParseRows(record.content) = None

\* a send with an Excel sheet and a PDF in the list
C28_Witness ==
    /\ Len(exchanges) = 1
    /\ Len(exchanges[1].files) = 2
    /\ exchanges[1].files[1].type = TypeXls
    /\ exchanges[1].files[2].type = TypePdf
    /\ RecordsOf(1)[1].content = JSONStringifyRows(CsvRows)
    /\ RecordsOf(1)[2].content = PdfText

(***************************************************************************)
(* Ids, removals and the completion of a batch.                            *)
(***************************************************************************)
\* C22: the ids of the entries of the uploaded-file list are pairwise
\* distinct (SpecUpload).
C22_IdsPairwiseDistinct ==
    \A j, k \in 1..Len(uploadedFiles) :
        j # k => uploadedFiles[j].id # uploadedFiles[k].id

\* the entries a batch uploaded itself
OwnUploads(batch) ==
    {TheValue(batch.slots[i].value) :
        i \in {h \in 1..Len(batch.slots) : batch.slots[h].value # None}}

\* C26: an entry removed with removeFile while a batch was in flight is not
\* in the list when that batch has completed, unless the batch uploaded it
\* itself (SpecRemoval).
C26_RemovedFileStaysRemoved ==
    lastBatch.done
        => \A e \in lastBatch.removed \ OwnUploads(lastBatch) :
               \A k \in 1..Len(uploadedFiles) : uploadedFiles[k] # e

\* C27: the list changes only by a removal or by the one update of a batch
\* all of whose files have settled; a batch in flight has a pending file and
\* has not updated the list; and, upload calls settling eventually, every
\* batch in flight comes to its update (SpecRemovalFair).
C27_SingleUpdateAfterAllSettled ==
    /\ [][ uploadedFiles' # uploadedFiles
               => IF lastBatch'.done
                  THEN /\ \A i \in 1..Len(lastBatch'.slots) :
                              lastBatch'.slots[i].state = "settled"
                       /\ uploadedFiles' = lastBatch'.handed
                       /\ Len(batches') <= Len(batches)
                  ELSE /\ Len(uploadedFiles') < Len(uploadedFiles)
                       /\ Len(batches') = Len(batches)
         ]_vars
    /\ [](\A b \in 1..Len(batches) :
              /\ ~batches[b].done
              /\ \E i \in 1..Len(batches[b].slots) : batches[b].slots[i].state = "pending")
    /\ (batches # <<>>) ~> (batches = <<>>)

\* a batch of two files whose second file settled first has made its update
C27_Witness ==
    /\ lastBatch.done
    /\ Len(lastBatch.files) = 2
    /\ lastBatch.order = <<2, 1>>
    /\ Len(lastBatch.handed) = 2
    /\ uploadedFiles = lastBatch.handed
    /\ batches = <<>>

(***************************************************************************)
(* The loading flag, the rendered controls and the shape of the list.      *)
(***************************************************************************)
\* C23: isLoading is true exactly in the states with an outstanding
\* exchange (SpecChat).
C23_LoadingIffOutstanding == isLoading <=> PendingExchanges # {}

\* C24: with sends started by ChatInput's submit and the welcome suggestions
\* only, at most one exchange is outstanding (SpecUI).
C24_AtMostOneOutstanding == Cardinality(PendingExchanges) <= 1

\* a second exchange was started by a submit after the first was answered
C24_Witness ==
    /\ Len(exchanges) = 2
    /\ Settled(1)
    /\ ~Settled(2)
    /\ lastCall.op = "handleSubmit"
    /\ isLoading

\* every exchange was answered before the next send was invoked
NoOverlappingSend ==
    \A i, j \in 1..Len(exchanges) :
        i < j => exchanges[i].replyPos \in 1..(exchanges[j].userPos - 1)

\* C25: if no send was invoked while an exchange was outstanding, the roles
\* alternate user, assistant from the first message on, the answer to a send
\* is the message right after its user message, and the user messages are
\* one more than the assistant messages exactly while an exchange is
\* outstanding (SpecLive).
C25_StrictAlternation ==
    NoOverlappingSend
        => /\ \A k \in 1..Len(messages) :
                  messages[k].role = IF k % 2 = 1 THEN "user" ELSE "assistant"
           /\ \A i \in 1..Len(exchanges) :
                  /\ exchanges[i].userPos = 2 * i - 1
                  /\ Settled(i) => exchanges[i].replyPos = exchanges[i].userPos + 1
           /\ CountRole("user") - CountRole("assistant")
                  = IF PendingExchanges # {} THEN 1 ELSE 0

\* two sends, the second after the answer to the first, the first answered
\* by the fallback
C25_Witness ==
    /\ Len(exchanges) = 2
    /\ NoOverlappingSend
    /\ Len(messages) = 3
    /\ IsFallback(messages[2])
    /\ messages[3].role = "user"
    /\ isLoading

\* C29: every exchange that was started comes to a state in which its
\* answer, of role assistant, is in the list, and whenever no exchange is
\* outstanding isLoading is false (SpecLive).
C29_EverySendIsAnswered ==
    /\ \A i \in 1..MaxLiveSends :
           (Len(exchanges) >= i)
               ~> (/\ Len(exchanges) >= i
                   /\ Settled(i)
                   /\ exchanges[i].replyPos \in 1..Len(messages)
                   /\ messages[exchanges[i].replyPos].role = "assistant")
    /\ [](PendingExchanges = {} => ~isLoading)

\* two overlapping sends both failed, one by a rejection and one by a null
\* body, and the interface is idle again
C29_Witness ==
    /\ Len(exchanges) = 2
    /\ exchanges[2].userPos = 2
    /\ exchanges[1].outcome.settled = "rejected"
    /\ exchanges[2].outcome.settled = "fulfilled"
    /\ exchanges[2].outcome.data.kind = "null"
    /\ IsFallback(messages[3])
    /\ IsFallback(messages[4])
    /\ ~isLoading

\* C30: a submit with a draft that is not blank while the input is enabled
\* starts one exchange with the draft as it is, stores a user message with
\* that text and clears the draft; any other submit changes nothing (SpecUI).
C30_SubmitPassesDraftVerbatim ==
    [][ lastCall'.op = "handleSubmit"
            => IF ~IsBlankText(draft) /\ ~isLoading
               THEN /\ Len(exchanges') = Len(exchanges) + 1
                    /\ exchanges'[Len(exchanges')].request.message = draft
                    /\ Len(messages') = Len(messages) + 1
                    /\ SubSeq(messages', 1, Len(messages)) = messages
                    /\ messages'[Len(messages')].role = "user"
                    /\ messages'[Len(messages')].content = Some(draft)
                    /\ draft' = <<>>
               ELSE UNCHANGED <<messages, exchanges, isLoading, draft>>
      ]_vars

\* the draft " hi\n" was submitted and stored with its blanks
C30_Witness ==
    /\ lastCall.op = "handleSubmit"
    /\ lastCall.message = <<" ", "h", "i", "\n">>
    /\ draft = <<>>
    /\ Len(exchanges) = 1
    /\ exchanges[1].request.message = <<" ", "h", "i", "\n">>
    /\ messages[1].content = Some(<<" ", "h", "i", "\n">>)

====
